---- MODULE Spec2Model ----
(***************************************************************************)
(* Model of the encrypted retrieval store of consulting_app_cases_POC:     *)
(* class EncryptedAnswerRetriever of src/faiss_lookup.py.  The three lazy  *)
(* properties (index, metadata, embedder) and get_nearest_neighbors are    *)
(* modelled as steps of caller threads; a step boundary is placed at every *)
(* read or write of a cached field (self._index, self._metadata,           *)
(* self._embedder), which is where callers sharing one retriever can       *)
(* interleave.                                                             *)
(***************************************************************************)
EXTENDS Integers, Sequences, FiniteSets, TLC

VARIABLES disk, _index, _metadata, _embedder, work, pc, frame, calls, threads,
          session, sheet, lastrun

vars == <<disk, _index, _metadata, _embedder, work, pc, frame, calls, threads,
          session, sheet, lastrun>>

(***************************************************************************)
(* Bounds of the model.                                                    *)
(***************************************************************************)
\* longest metadata table / largest index (number of vectors)
MaxRecs == 2
\* largest "small" result count n a caller asks for (OverfetchK is asked too)
MaxN == 2
\* calls each caller thread makes
MaxCalls == 2

\* faiss_lookup.py:57  self.index.search(query_vec, k=20)
OverfetchK == 20

Threads == {1, 2}

(***************************************************************************)
(* Identifiers.  case_id / question_id may be ints or strings; the code    *)
(* compares them after str().                                              *)
(***************************************************************************)
IntId(n) == [kind |-> "int", v |-> n, s |-> ""]
StrId(s) == [kind |-> "str", v |-> 0, s |-> s]

IntToStr(n) ==
    CASE n = 0 -> "0" [] n = 1 -> "1" [] n = 2 -> "2" [] n = 9 -> "9"
      [] OTHER -> "?"

\* Python str(x) on an id
Str(id) == IF id.kind = "int" THEN IntToStr(id.v) ELSE id.s

\* the scopes the metadata records carry, and the scopes callers ask for
MetaScopes == { <<StrId("A"), IntId(1)>>, <<StrId("A"), StrId("2")>>,
                <<StrId("B"), StrId("1")>> }
QueryScopes == { <<StrId("A"), StrId("1")>>, <<StrId("B"), IntId(1)>>,
                 <<StrId("C"), IntId(9)>> }

\* a metadata record; answer stands for the record's own text and tells
\* records of one scope apart (it is the position the record was stored at)
MetaRecord(sc, pos) == [case_id |-> sc[1], question_id |-> sc[2], answer |-> pos]

ScopeSeqs(len) == [1..len -> MetaScopes]
Tables == UNION { { [p \in 1..len |-> MetaRecord(ss[p], p - 1)] : ss \in ScopeSeqs(len) }
                  : len \in 0..MaxRecs }


(***************************************************************************)
(* The inputs on disk: the two encrypted blobs and the embedding model.    *)
(*   idx   "ok" | "bad_token" (wrong key or corrupted ciphertext: Fernet   *)
(*         raises InvalidToken) | "bad_format" (plaintext is no faiss      *)
(*         index) | "bad_dim" (an index of another vector dimension than   *)
(*         the embedder's: search raises)                                  *)
(*   meta  "ok" | "bad_token" | "bad_format" (plaintext does not unpickle) *)
(*   model "ok" | "missing" (SentenceTransformer(name) raises)             *)
(*   ntotal, table: what the blobs hold when they load.                    *)
(***************************************************************************)
MkDisk(i, m, e, nt, tb) == [idx |-> i, meta |-> m, model |-> e, ntotal |-> nt, table |-> tb]

\* a table of five records with scopes (A,1),(A,1),(A,2),(B,1),(A,1)
ExampleScopes == << <<StrId("A"), IntId(1)>>, <<StrId("A"), IntId(1)>>, <<StrId("A"), IntId(2)>>,
                    <<StrId("B"), IntId(1)>>, <<StrId("A"), IntId(1)>> >>
ExampleTable == [p \in 1..5 |-> MetaRecord(ExampleScopes[p], p - 1)]

\* every (index, metadata) pair that loads, aligned or not, of up to MaxRecs
\* records, and the aligned pair of five
GoodDisks == { MkDisk("ok", "ok", "ok", nt, tb) : nt \in 0..MaxRecs, tb \in Tables }
                \cup { MkDisk("ok", "ok", "ok", 5, ExampleTable) }

\* one aligned table with an in-scope and an out-of-scope record
FaultTable == [p \in 1..2 |-> MetaRecord(IF p = 1 THEN <<StrId("A"), IntId(1)>>
                                                  ELSE <<StrId("B"), StrId("1")>>, p - 1)]

\* disks on which some load or the search fails
FaultyDisks ==
    { MkDisk(i, m, e, 2, FaultTable) :
        i \in {"ok", "bad_token", "bad_format", "bad_dim"},
        m \in {"ok", "bad_token", "bad_format"},
        e \in {"ok", "missing"} } \ { MkDisk("ok", "ok", "ok", 2, FaultTable) }

Disks == GoodDisks \cup FaultyDisks

(***************************************************************************)
(* Cached fields.  None is Python's None; a handle carries the identity of *)
(* the object a load produced (id: the ordinal of the load) and what the   *)
(* object holds.                                                           *)
(***************************************************************************)
None == [id |-> 0]

IndexHandle(k, d) == [id |-> k, ntotal |-> d.ntotal, dim_ok |-> d.idx # "bad_dim"]
MetaHandle(k, d) == [id |-> k, table |-> d.table]
EmbedderHandle(k) == [id |-> k, model |-> "all-MiniLM-L6-v2"]

Ops == {"index", "metadata", "embedder", "query"}
Queries == {"text", "invalid"}
NValues == (1..MaxN) \cup {OverfetchK}

IdleFrame == [op |-> "none", query |-> "none", case_id |-> StrId(""), question_id |-> StrId(""),
              n |-> 0, k |-> 0, I |-> <<>>, got |-> None, result |-> <<>>, error |-> "none"]

(***************************************************************************)
(* The submission app (src/app.py): st.session_state, the answer sheet and *)
(* what the last script run did.  A script run is one step.                *)
(***************************************************************************)
\* init_session_state; selected_case_id "" stands for the key being absent,
\* authenticated holds the case ids c with a key authenticated_<c>, answers
\* maps <<case, question>> to the text stored under submitted_answer_<c>_<q>
SessionDefaults ==
    [submitted_questions |-> <<>>, current_question |-> 0, user_name |-> <<>>,
     user_email |-> <<>>, details_submitted |-> FALSE, input_method_chosen |-> FALSE,
     selected_input_method |-> "None", selected_case_id |-> "", authenticated |-> {},
     answers |-> <<>>]

\* what a script run did: the message it showed, the outcome of the
\* retrieval call, whether "Good work!" was shown, the prompt built, the
\* feedback obtained, where the try block failed, whether a row was appended
NoRun == [msg |-> "none", question |-> <<>>, retrieval |-> "none", good_work |-> FALSE,
          prompt |-> "none", feedback |-> "none", failed_at |-> "none", appended |-> FALSE]

AppIdle ==
    /\ session = SessionDefaults
    /\ sheet = <<>>
    /\ lastrun = NoRun

\* __init__: all three cached fields start as None
RetrieverInit ==
    /\ _index = None
    /\ _metadata = None
    /\ _embedder = None
    /\ work = [idx_decrypt |-> 0, idx_tmpfile |-> 0, idx_load |-> 0,
               meta_decrypt |-> 0, meta_load |-> 0, emb_load |-> 0]
    /\ pc = [t \in Threads |-> "idle"]
    /\ frame = [t \in Threads |-> IdleFrame]
    /\ calls = [t \in Threads |-> 0]

\* one caller at a time
Init ==
    /\ disk \in Disks
    /\ threads = {1}
    /\ RetrieverInit
    /\ AppIdle


(***************************************************************************)
(* Pure parts of get_nearest_neighbors.                                    *)
(***************************************************************************)
Min(a, b) == IF a <= b THEN a ELSE b

\* index.search(query_vec, k): the ids of the min(k, ntotal) nearest vectors,
\* nearest first (any order: it depends on the query vector), padded with -1
\* up to k ids
SearchResults(ntotal, k) ==
    LET m == Min(k, ntotal)
        orders == { f \in [1..m -> 0..(ntotal - 1)] :
                      \A a, b \in 1..m : f[a] = f[b] => a = b }
    IN  { [p \in 1..k |-> IF p <= m THEN f[p] ELSE -1] : f \in orders }

\* Python list indexing table[i]: -len..-1 count from the end; anything else
\* outside 0..len-1 raises IndexError
IndexInRange(table, i) == -Len(table) <= i /\ i < Len(table)
PyGetItem(table, i) == IF i >= 0 THEN table[i + 1] ELSE table[Len(table) + i + 1]

\* mutant of Matches: the question_id comparison is dropped
MatchesCaseOnly(meta, case_id, question_id) == Str(meta.case_id) = Str(case_id)

\* line 62: str(meta["case_id"]) == str(case_id) and str(meta["question_id"]) == str(question_id)
Matches(meta, case_id, question_id) ==
    Str(meta.case_id) = Str(case_id) /\ Str(meta.question_id) = Str(question_id)

\* mutant of LoopBreaks: the loop stops one match late
LoopBreaksLate(filtered, n) == Len(filtered) > n

\* line 64: if len(filtered) >= n: break
LoopBreaks(filtered, n) == Len(filtered) >= n

\* lines 59-65: the loop over I[0] from candidate p on; the outcome is the
\* list collected, or IndexError raised by self.metadata[i]
RECURSIVE FilterLoop(_, _, _, _, _, _, _)
FilterLoop(I, p, filtered, table, case_id, question_id, n) ==
    IF p > Len(I) THEN [error |-> "none", result |-> filtered]
    ELSE IF ~IndexInRange(table, I[p]) THEN [error |-> "IndexError", result |-> <<>>]
    ELSE LET meta == PyGetItem(table, I[p])
             kept == IF Matches(meta, case_id, question_id)
                     THEN Append(filtered, meta) ELSE filtered
         IN  IF LoopBreaks(kept, n) THEN [error |-> "none", result |-> kept]
             ELSE FilterLoop(I, p + 1, kept, table, case_id, question_id, n)

\* the arguments callers pass: every scope and n while one caller runs; one
\* scope and one n while two callers interleave (what the callers race on is
\* the cached fields, not the arguments)
CallScopes == IF Cardinality(threads) = 1 THEN QueryScopes ELSE { <<StrId("A"), StrId("1")>> }
CallNs == IF Cardinality(threads) = 1 THEN NValues ELSE {1}

(***************************************************************************)
(* Steps of a caller thread t.                                             *)
(***************************************************************************)
Goto(t, label) == pc' = [pc EXCEPT ![t] = label]
Raise(t, err) ==
    /\ pc' = [pc EXCEPT ![t] = "raised"]
    /\ frame' = [frame EXCEPT ![t].error = err]

\* a caller reads one of the properties or calls get_nearest_neighbors
Call(t) ==
    /\ t \in threads
    /\ pc[t] = "idle"
    /\ calls[t] < MaxCalls
    /\ calls' = [calls EXCEPT ![t] = @ + 1]
    /\ \E op \in Ops :
         IF op = "query"
         THEN \E q \in Queries, sc \in CallScopes, n \in CallNs :
                /\ frame' = [frame EXCEPT ![t] = [IdleFrame EXCEPT !.op = op, !.query = q,
                                !.case_id = sc[1], !.question_id = sc[2], !.n = n]]
                /\ Goto(t, "emb_check")
         ELSE /\ frame' = [frame EXCEPT ![t] = [IdleFrame EXCEPT !.op = op]]
              /\ Goto(t, CASE op = "index" -> "idx_check"
                           [] op = "metadata" -> "meta_check"
                           [] OTHER -> "emb_check")
    /\ UNCHANGED <<disk, _index, _metadata, _embedder, work, threads, session, sheet, lastrun>>

\* embedder, line 47: if self._embedder is None
EmbCheck(t) ==
    /\ t \in threads
    /\ pc[t] = "emb_check"
    /\ Goto(t, IF _embedder = None THEN "emb_load" ELSE "emb_ret")
    /\ UNCHANGED <<disk, _index, _metadata, _embedder, work, frame, calls, threads, session, sheet, lastrun>>

\* embedder, line 48: self._embedder = SentenceTransformer(self.model_name)
EmbLoad(t) ==
    /\ t \in threads
    /\ pc[t] = "emb_load"
    /\ work' = [work EXCEPT !.emb_load = @ + 1]
    /\ IF disk.model = "ok"
       THEN /\ _embedder' = EmbedderHandle(work'.emb_load)
            /\ Goto(t, "emb_ret")
            /\ UNCHANGED frame
       ELSE /\ Raise(t, "ModelLoadError")
            /\ UNCHANGED _embedder
    /\ UNCHANGED <<disk, _index, _metadata, calls, threads, session, sheet, lastrun>>

\* embedder, line 49: return self._embedder
EmbRet(t) ==
    /\ t \in threads
    /\ pc[t] = "emb_ret"
    /\ frame' = [frame EXCEPT ![t].got = _embedder]
    /\ Goto(t, IF frame[t].op = "embedder" THEN "done" ELSE "encode")
    /\ UNCHANGED <<disk, _index, _metadata, _embedder, work, calls, threads, session, sheet, lastrun>>

\* mutant of Encode: a failed encode drops the cached embedder
EncodeResetsCache(t) ==
    /\ t \in threads
    /\ pc[t] = "encode"
    /\ IF frame[t].query = "invalid"
       THEN Raise(t, "EmbeddingError") /\ _embedder' = None
       ELSE Goto(t, "idx_check") /\ UNCHANGED <<frame, _embedder>>
    /\ UNCHANGED <<disk, _index, _metadata, work, calls, threads, session, sheet, lastrun>>

\* line 56: query_vec = self.embedder.encode([query], convert_to_numpy=True)
Encode(t) ==
    /\ t \in threads
    /\ pc[t] = "encode"
    /\ IF frame[t].query = "invalid"
       THEN Raise(t, "EmbeddingError")
       ELSE Goto(t, "idx_check") /\ UNCHANGED frame
    /\ UNCHANGED <<disk, _index, _metadata, _embedder, work, calls, threads, session, sheet, lastrun>>

\* mutant of IdxCheck: the cached handle is never used
IdxCheckNoCache(t) ==
    /\ t \in threads
    /\ pc[t] = "idx_check"
    /\ Goto(t, "idx_load")
    /\ UNCHANGED <<disk, _index, _metadata, _embedder, work, frame, calls, threads, session, sheet, lastrun>>

\* index, line 27: if self._index is None
IdxCheck(t) ==
    /\ t \in threads
    /\ pc[t] = "idx_check"
    /\ Goto(t, IF _index = None THEN "idx_load" ELSE "idx_ret")
    /\ UNCHANGED <<disk, _index, _metadata, _embedder, work, frame, calls, threads, session, sheet, lastrun>>

\* mutant of IdxLoad: the handle is stored before the token is verified, so
\* a failed decryption leaves a handle in the cache
IdxLoadKeepsGarbage(t) ==
    /\ t \in threads
    /\ pc[t] = "idx_load"
    /\ work' = [work EXCEPT !.idx_decrypt = @ + 1, !.idx_tmpfile = @ + 1, !.idx_load = @ + 1]
    /\ _index' = IndexHandle(work'.idx_load, disk)
    /\ IF disk.idx = "bad_token" THEN Raise(t, "InvalidToken")
       ELSE IF disk.idx = "bad_format" THEN Raise(t, "IndexFormatError")
       ELSE Goto(t, "idx_ret") /\ UNCHANGED frame
    /\ UNCHANGED <<disk, _metadata, _embedder, calls, threads, session, sheet, lastrun>>

\* index, lines 28-34: read the blob, decrypt it, write the plaintext to a
\* temporary file (delete=False), faiss.read_index it, assign self._index
IdxLoad(t) ==
    /\ t \in threads
    /\ pc[t] = "idx_load"
    /\ IF disk.idx = "bad_token"
       THEN /\ work' = [work EXCEPT !.idx_decrypt = @ + 1]
            /\ Raise(t, "InvalidToken")
            /\ UNCHANGED _index
       ELSE IF disk.idx = "bad_format"
       THEN /\ work' = [work EXCEPT !.idx_decrypt = @ + 1, !.idx_tmpfile = @ + 1]
            /\ Raise(t, "IndexFormatError")
            /\ UNCHANGED _index
       ELSE /\ work' = [work EXCEPT !.idx_decrypt = @ + 1, !.idx_tmpfile = @ + 1,
                                    !.idx_load = @ + 1]
            /\ _index' = IndexHandle(work'.idx_load, disk)
            /\ Goto(t, "idx_ret")
            /\ UNCHANGED frame
    /\ UNCHANGED <<disk, _metadata, _embedder, calls, threads, session, sheet, lastrun>>

\* index, line 35: return self._index
IdxRet(t) ==
    /\ t \in threads
    /\ pc[t] = "idx_ret"
    /\ frame' = [frame EXCEPT ![t].got = _index]
    /\ Goto(t, IF frame[t].op = "index" THEN "done" ELSE "search")
    /\ UNCHANGED <<disk, _index, _metadata, _embedder, work, calls, threads, session, sheet, lastrun>>

\* mutant of SearchK: the over-fetch scales with n
SearchKScaled(n) == 4 * n

\* line 57: the number of candidates asked of the index
SearchK(n) == OverfetchK

\* line 57: D, I = self.index.search(query_vec, k=20)
Search(t) ==
    /\ t \in threads
    /\ pc[t] = "search"
    /\ IF ~frame[t].got.dim_ok
       THEN Raise(t, "SearchError")
       ELSE /\ \E I \in SearchResults(frame[t].got.ntotal, SearchK(frame[t].n)) :
                 frame' = [frame EXCEPT ![t].I = I, ![t].k = SearchK(frame[t].n)]
            /\ Goto(t, "meta_check")
    /\ UNCHANGED <<disk, _index, _metadata, _embedder, work, calls, threads, session, sheet, lastrun>>

\* metadata, line 39: if self._metadata is None
MetaCheck(t) ==
    /\ t \in threads
    /\ pc[t] = "meta_check"
    /\ Goto(t, IF _metadata = None THEN "meta_load" ELSE "meta_ret")
    /\ UNCHANGED <<disk, _index, _metadata, _embedder, work, frame, calls, threads, session, sheet, lastrun>>

\* mutant of MetaLoad: a failed load is swallowed and the query returns []
MetaLoadSwallows(t) ==
    /\ t \in threads
    /\ pc[t] = "meta_load"
    /\ IF disk.meta # "ok"
       THEN /\ work' = [work EXCEPT !.meta_decrypt = @ + 1]
            /\ frame' = [frame EXCEPT ![t].result = <<>>]
            /\ Goto(t, "done")
            /\ UNCHANGED _metadata
       ELSE /\ work' = [work EXCEPT !.meta_decrypt = @ + 1, !.meta_load = @ + 1]
            /\ _metadata' = MetaHandle(work'.meta_load, disk)
            /\ Goto(t, "meta_ret")
            /\ UNCHANGED frame
    /\ UNCHANGED <<disk, _index, _embedder, calls, threads, session, sheet, lastrun>>

\* metadata, lines 40-42: read the blob, decrypt it, unpickle, assign
MetaLoad(t) ==
    /\ t \in threads
    /\ pc[t] = "meta_load"
    /\ IF disk.meta = "bad_token"
       THEN /\ work' = [work EXCEPT !.meta_decrypt = @ + 1]
            /\ Raise(t, "InvalidToken")
            /\ UNCHANGED _metadata
       ELSE IF disk.meta = "bad_format"
       THEN /\ work' = [work EXCEPT !.meta_decrypt = @ + 1]
            /\ Raise(t, "MetadataFormatError")
            /\ UNCHANGED _metadata
       ELSE /\ work' = [work EXCEPT !.meta_decrypt = @ + 1, !.meta_load = @ + 1]
            /\ _metadata' = MetaHandle(work'.meta_load, disk)
            /\ Goto(t, "meta_ret")
            /\ UNCHANGED frame
    /\ UNCHANGED <<disk, _index, _embedder, calls, threads, session, sheet, lastrun>>

\* metadata, line 43: return self._metadata
MetaRet(t) ==
    /\ t \in threads
    /\ pc[t] = "meta_ret"
    /\ frame' = [frame EXCEPT ![t].got = _metadata]
    /\ Goto(t, IF frame[t].op = "metadata" THEN "done" ELSE "filter")
    /\ UNCHANGED <<disk, _index, _metadata, _embedder, work, calls, threads, session, sheet, lastrun>>

\* lines 59-71: the loop over the candidates and the return.  Both return
\* statements give the list collected; the first (lines 67-69) also prints.
Filter(t) ==
    /\ t \in threads
    /\ pc[t] = "filter"
    /\ LET f == frame[t]
           out == FilterLoop(f.I, 1, <<>>, f.got.table, f.case_id, f.question_id, f.n)
       IN  IF out.error # "none"
           THEN Raise(t, out.error)
           ELSE /\ frame' = [frame EXCEPT ![t].result = out.result]
                /\ Goto(t, "done")
    /\ UNCHANGED <<disk, _index, _metadata, _embedder, work, calls, threads, session, sheet, lastrun>>

\* the call is over (returned or raised) and the caller is free to call again
Return(t) ==
    /\ t \in threads
    /\ pc[t] \in {"done", "raised"}
    /\ pc' = [pc EXCEPT ![t] = "idle"]
    /\ frame' = [frame EXCEPT ![t] = IdleFrame]
    /\ UNCHANGED <<disk, _index, _metadata, _embedder, work, calls, threads, session, sheet, lastrun>>

Next ==
    \E t \in Threads :
        \/ Call(t)
        \/ EmbCheck(t)
        \/ EmbLoad(t)
        \/ EmbRet(t)
        \/ Encode(t)
        \/ IdxCheck(t)
        \/ IdxLoad(t)
        \/ IdxRet(t)
        \/ Search(t)
        \/ MetaCheck(t)
        \/ MetaLoad(t)
        \/ MetaRet(t)
        \/ Filter(t)
        \/ Return(t)

Spec == Init /\ [][Next]_vars


(***************************************************************************)
(* Two callers sharing one retriever (one thread per user session of the   *)
(* hosting process).  The class takes no lock, so the callers' steps       *)
(* interleave freely.                                                      *)
(***************************************************************************)
SingleFault(d) ==
    Cardinality({ f \in {"idx", "meta", "model"} :
                    (f = "idx" /\ d.idx # "ok") \/ (f = "meta" /\ d.meta # "ok")
                    \/ (f = "model" /\ d.model # "ok") }) <= 1

ConcDisks == { d \in FaultyDisks : SingleFault(d) } \cup { MkDisk("ok", "ok", "ok", 2, FaultTable) }

InitConc ==
    /\ disk \in ConcDisks
    /\ threads = Threads
    /\ RetrieverInit
    /\ AppIdle

SpecConc == InitConc /\ [][Next]_vars


(***************************************************************************)
(* Properties.                                                             *)
(***************************************************************************)
QueryDone(t) == t \in threads /\ pc[t] = "done" /\ frame[t].op = "query"

\* a record is in the scope asked for, under string-normalised comparison
InScope(rec, case_id, question_id) ==
    Str(rec.case_id) = Str(case_id) /\ Str(rec.question_id) = Str(question_id)

\* the (index, metadata) pair on disk is positionally aligned
Aligned == Len(disk.table) = disk.ntotal

\* the records of the table the candidate list I names, nearest first
\* (candidates that name no position of the table are skipped)
RECURSIVE CandidateRecords(_, _)
CandidateRecords(I, table) ==
    IF I = <<>> THEN <<>>
    ELSE LET rest == CandidateRecords(Tail(I), table)
         IN  IF Head(I) >= 0 /\ Head(I) < Len(table)
             THEN <<table[Head(I) + 1]>> \o rest ELSE rest

\* the first n elements of a sequence
Take(seq, n) == SubSeq(seq, 1, Min(n, Len(seq)))

\* the records the candidate ids of I resolve to as list subscripts of the
\* table (a negative id counts from the end of the list)
LookedUp(I, table) ==
    { table[(I[p] % Len(table)) + 1] :
        p \in { q \in 1..Len(I) : Len(table) > 0 /\ -Len(table) <= I[q] /\ I[q] < Len(table) } }

\* C1: every record a query returns has the query's case_id and question_id
\* (compared as strings) and is a record a candidate resolves to; when no
\* candidate resolves to an in-scope record the result is empty.
C1_ScopeCorrectness ==
    \A t \in Threads : QueryDone(t) =>
        LET f == frame[t]
            cands == LookedUp(f.I, disk.table)
        IN  /\ \A i \in 1..Len(f.result) :
                  /\ InScope(f.result[i], f.case_id, f.question_id)
                  /\ f.result[i] \in cands
            /\ (\A r \in cands : ~InScope(r, f.case_id, f.question_id)) => f.result = <<>>

\* C1 witness: a query returned records although the table also holds a
\* record of another scope
C1_Witness ==
    \E t \in Threads : QueryDone(t) /\ frame[t].result # <<>>
        /\ \E p \in 1..Len(disk.table) :
              ~InScope(disk.table[p], frame[t].case_id, frame[t].question_id)

\* C4: for n >= 1 a query returns between 0 and n records.
C4_BoundedResultSize ==
    \A t \in Threads : (QueryDone(t) /\ frame[t].n >= 1) => Len(frame[t].result) <= frame[t].n

\* C4 witness: a query returned exactly n records and left an in-scope
\* candidate out
C4_Witness ==
    \E t \in Threads : QueryDone(t) /\ Len(frame[t].result) = frame[t].n
        /\ Len(SelectSeq(CandidateRecords(frame[t].I, disk.table),
                LAMBDA r : InScope(r, frame[t].case_id, frame[t].question_id))) > frame[t].n


LoadsOk == disk.idx = "ok" /\ disk.meta = "ok" /\ disk.model = "ok"

\* C2: on blobs that load, racing callers cause one decrypt/deserialize/load
\* sequence per resource and one temporary index file, and all callers that
\* read a property get the same handle.
C2_RaceSafeInit ==
    LoadsOk =>
        /\ work.idx_decrypt <= 1 /\ work.idx_tmpfile <= 1 /\ work.idx_load <= 1
        /\ work.meta_decrypt <= 1 /\ work.meta_load <= 1
        /\ work.emb_load <= 1
        /\ \A t, u \in threads :
              (pc[t] = "done" /\ pc[u] = "done" /\ frame[t].op = frame[u].op
                 /\ frame[t].op # "query") => frame[t].got = frame[u].got

\* C3: with one caller, once a resource is cached its handle is the one of
\* the first load, exactly one read/decrypt/deserialize pass (and one
\* temporary file) was made for it, and a property read returns the cached
\* handle.
C3_LazyIdempotent ==
    /\ _index # None =>
          work.idx_decrypt = 1 /\ work.idx_tmpfile = 1 /\ work.idx_load = 1 /\ _index.id = 1
    /\ _metadata # None =>
          work.meta_decrypt = 1 /\ work.meta_load = 1 /\ _metadata.id = 1
    /\ _embedder # None => work.emb_load = 1 /\ _embedder.id = 1
    /\ \A t \in threads : pc[t] = "done" =>
          /\ frame[t].op = "index" => frame[t].got = _index /\ frame[t].got.id = 1
          /\ frame[t].op = "metadata" => frame[t].got = _metadata /\ frame[t].got.id = 1
          /\ frame[t].op = "embedder" => frame[t].got = _embedder /\ frame[t].got.id = 1

\* C3 witness: the caller's second call read index again after its first
\* call (which touched no other resource) had loaded it; one decrypt pass
C3_Witness ==
    \E t \in threads :
        /\ calls[t] = 2 /\ pc[t] = "done" /\ frame[t].op = "index"
        /\ work.idx_decrypt = 1 /\ work.emb_load = 0 /\ work.meta_decrypt = 0


\* the in-scope records among the valid candidates of I, nearest first
InScopeCandidates(I, table, case_id, question_id) ==
    SelectSeq(CandidateRecords(I, table), LAMBDA r : InScope(r, case_id, question_id))

\* C5: on an aligned pair that loads, a query with valid text for a scope no
\* record of the table has returns the empty list and raises nothing.
C5_GracefulEmpty ==
    \A t \in threads :
        ( /\ frame[t].op = "query" /\ frame[t].query = "text"
          /\ LoadsOk /\ Aligned
          /\ \A p \in 1..Len(disk.table) :
                ~InScope(disk.table[p], frame[t].case_id, frame[t].question_id) )
        => /\ pc[t] # "raised"
           /\ pc[t] = "done" => frame[t].result = <<>>

\* C6: on an aligned pair a query returns the in-scope records at the
\* candidate positions, nearest first, cut to the first n.
C6_OrderingSelection ==
    \A t \in Threads : (QueryDone(t) /\ Aligned) =>
        frame[t].result =
            Take(InScopeCandidates(frame[t].I, disk.table, frame[t].case_id, frame[t].question_id),
                 frame[t].n)

\* the scenario of five records: scope (A,1), n = 2 and candidates
\* 4,1,0,2,3 give the records at positions 4 and 1
C6_Scenario ==
    \A t \in Threads :
        ( /\ QueryDone(t) /\ disk.table = ExampleTable /\ disk.ntotal = 5
          /\ frame[t].n = 2 /\ Str(frame[t].case_id) = "A" /\ Str(frame[t].question_id) = "1"
          /\ SubSeq(frame[t].I, 1, 5) = <<4, 1, 0, 2, 3>> )
        => frame[t].result = <<ExampleTable[5], ExampleTable[2]>>

\* the scenario is reached
C6_ScenarioReached ==
    \E t \in Threads :
        /\ QueryDone(t) /\ disk.table = ExampleTable /\ disk.ntotal = 5
        /\ frame[t].n = 2 /\ Str(frame[t].case_id) = "A" /\ Str(frame[t].question_id) = "1"
        /\ SubSeq(frame[t].I, 1, 5) = <<4, 1, 0, 2, 3>>

\* C7: no query returns a result drawn from a misaligned (index, metadata)
\* pair.
C7_AlignmentVerified ==
    \A t \in Threads : QueryDone(t) => Aligned

\* C8: when the index (metadata) blob fails authentication, _index
\* (_metadata) stays None, no temporary index file is written, and a read of
\* the property ends raising InvalidToken with no handle returned.
C8_WrongKeyNoHandle ==
    /\ disk.idx = "bad_token" =>
          /\ _index = None /\ work.idx_tmpfile = 0
          /\ \A t \in threads : (frame[t].op = "index" /\ pc[t] \in {"done", "raised"}) =>
                pc[t] = "raised" /\ frame[t].error = "InvalidToken" /\ frame[t].got = None
    /\ disk.meta = "bad_token" =>
          /\ _metadata = None
          /\ \A t \in threads : (frame[t].op = "metadata" /\ pc[t] \in {"done", "raised"}) =>
                pc[t] = "raised" /\ frame[t].error = "InvalidToken" /\ frame[t].got = None

\* C8 witness: a read of index on a blob that fails authentication has
\* raised after a decrypt attempt
C8_Witness ==
    \E t \in threads :
        /\ disk.idx = "bad_token" /\ frame[t].op = "index" /\ pc[t] = "raised"
        /\ work.idx_decrypt >= 1

\* C9: a step in which a query's encode or search raises changes none of
\* the cached handles and does no load work, so the next query finds the
\* retriever as the failing query found it.
C9_FailingQueryKeepsCache ==
    [][ \A t \in Threads :
          (pc[t] \in {"encode", "search"} /\ pc'[t] = "raised") =>
              /\ _index' = _index /\ _metadata' = _metadata /\ _embedder' = _embedder
              /\ work' = work /\ disk' = disk ]_vars

\* C9 witness: the caller's second call is a query whose encode raised while
\* all three handles were cached
C9_Witness ==
    \E t \in threads :
        /\ calls[t] = 2 /\ pc[t] = "raised" /\ frame[t].error = "EmbeddingError"
        /\ _index # None /\ _metadata # None /\ _embedder # None

\* C10 as claimed: the number of candidates asked of the index is strictly
\* larger than n in every call.
C10_OverfetchAboveN ==
    \A t \in threads : frame[t].k # 0 => frame[t].k > frame[t].n

\* C10 as amended: the number of candidates asked of the index is 20 in
\* every call, whatever n is, and so is strictly larger than n in the calls
\* with n < 20.
C10_FixedOverfetch ==
    \A t \in threads : frame[t].k # 0 =>
        /\ frame[t].k = OverfetchK
        /\ Len(frame[t].I) = OverfetchK
        /\ frame[t].n < OverfetchK => frame[t].k > frame[t].n

\* C10 witness: a query with n below 20 has searched and returned
C10_Witness ==
    \E t \in threads : QueryDone(t) /\ frame[t].k = OverfetchK /\ frame[t].n < frame[t].k


LoadErrors == {"ModelLoadError", "InvalidToken", "IndexFormatError", "MetadataFormatError"}

\* C11: a query returns a list only when the embedder, the index and the
\* metadata all loaded; a query that met a failing load has raised that
\* load's error and carries no result.
C11_InitFailureSurfaces ==
    \A t \in threads : frame[t].op = "query" =>
        /\ pc[t] = "done" =>
              disk.model = "ok" /\ disk.idx \notin {"bad_token", "bad_format"} /\ disk.meta = "ok"
        /\ (pc[t] = "raised" /\ frame[t].error \in LoadErrors) => frame[t].result = <<>>
        /\ (pc[t] \in {"done", "raised"} /\ frame[t].query = "text" /\ disk.model = "missing")
              => pc[t] = "raised" /\ frame[t].error = "ModelLoadError"

\* C11 witness: the caller's first operation is a query; the index loaded,
\* the metadata blob failed authentication and the query raised
C11_Witness ==
    \E t \in threads :
        /\ calls[t] = 1 /\ frame[t].op = "query" /\ pc[t] = "raised"
        /\ frame[t].error = "InvalidToken" /\ disk.meta = "bad_token"
        /\ _index # None /\ _metadata = None

\* C13: while only queries run, a cached handle (and with it the table it
\* holds) is never replaced, and the blobs on disk never change.
C13_ReadOnlyAfterInit ==
    [][ (\A t \in threads : frame[t].op \in {"none", "query"}
                            /\ frame'[t].op \in {"none", "query"}) =>
          /\ _index # None => _index' = _index
          /\ _metadata # None => _metadata' = _metadata
          /\ _embedder # None => _embedder' = _embedder
          /\ disk' = disk ]_vars

\* C15: on an aligned pair no record appears twice in a query's result.
C15_DistinctCandidates ==
    \A t \in Threads : (QueryDone(t) /\ Aligned) =>
        \A i, j \in 1..Len(frame[t].result) :
            i # j => frame[t].result[i] # frame[t].result[j]


(***************************************************************************)
(* The submission app, src/app.py.                                         *)
(***************************************************************************)
\* rows the sheet may hold in the model
MaxRows == 3

\* app.py:212  n=3
AppN == 3

\* case_data: the cases (sorted keys) and each case's question ids in order
CaseIds == {"A", "B"}
Questions(cid) == IF cid = "A" THEN <<"1", "2">> ELSE <<"1">>

\* st.secrets["CASE_PASSWORDS"]: case A has a password, case B has none
CasePasswords == [c \in {"A"} |-> "pw"]

\* dict.get(key): the value, or None
DictGet(d, key) == IF key \in DOMAIN d THEN [none |-> FALSE, v |-> d[key]]
                   ELSE [none |-> TRUE, v |-> ""]
PyStr(x) == [none |-> FALSE, v |-> x]

\* what users type.  A text is a sequence of characters; "w" stands for any
\* word character (\w), "a" and "b" for letters of an answer
Names == { <<>>, <<"w">> }
Emails == { <<>>, <<"w">>, <<"w", "@", "w">>, <<"@", "w", ".", "w">>,
            <<"w", "@", "w", ".", "w">>, <<"w", "@", ".", "w">>,
            <<"w", " ", "@", "w", ".", "w">>, <<"w", "@", "w", ".", "w", " ">>,
            <<"w", "-", ".", "@", "w", ".", "w", ".", "w", "w">> }
Passwords == {"", "pw", "bad"}
RawAnswers == { <<>>, <<" ">>, <<"a">>, <<" ", "b", " ">> }
Methods == {"Text", "Voice"}

\* line 86-92: re.match(r"^[\w\.-]+@[\w\.-]+\.\w+$", email)
LocalChar(c) == c \in {"w", ".", "-"}
EmailMatches(e) ==
    \E i \in 2..Len(e), j \in 3..Len(e) :
        /\ e[i] = "@" /\ \A p \in 1..(i - 1) : LocalChar(e[p])
        /\ j > i + 1 /\ \A p \in (i + 1)..(j - 1) : LocalChar(e[p])
        /\ e[j] = "." /\ j < Len(e) /\ \A p \in (j + 1)..Len(e) : e[p] = "w"

\* str.strip()
RECURSIVE LStrip(_)
LStrip(x) == IF x # <<>> /\ Head(x) = " " THEN LStrip(Tail(x)) ELSE x
RECURSIVE RStrip(_)
RStrip(x) == IF x # <<>> /\ x[Len(x)] = " " THEN RStrip(SubSeq(x, 1, Len(x) - 1)) ELSE x
Strip(x) == RStrip(LStrip(x))

\* the block of the script a run with this session state stops in
Stage(s) ==
    IF ~s.details_submitted THEN "details"
    ELSE IF s.selected_case_id = "" THEN "case"
    ELSE IF s.selected_case_id \notin s.authenticated THEN "password"
    ELSE IF ~s.input_method_chosen THEN "method"
    ELSE IF s.current_question >= Len(Questions(s.selected_case_id)) THEN "completed"
    ELSE "questions"

\* lines 156-166: the positions (from 0) of the questions the display loop
\* renders an input for: those up to current_question with no stored answer
OfferedPositions(s) ==
    IF Stage(s) # "questions" THEN {}
    ELSE { q \in 0..s.current_question :
             <<s.selected_case_id, Questions(s.selected_case_id)[q + 1]>> \notin DOMAIN s.answers }

\* get_nearest_neighbors on the retriever the run constructed (line 61: a new
\* one in every run, so nothing is cached): the outcomes it can end in
GetNearestNeighbors(d, query, case_id, question_id, n) ==
    IF d.model # "ok" THEN { [error |-> "ModelLoadError", result |-> <<>>] }
    ELSE IF query = "invalid" THEN { [error |-> "EmbeddingError", result |-> <<>>] }
    ELSE IF d.idx = "bad_token" THEN { [error |-> "InvalidToken", result |-> <<>>] }
    ELSE IF d.idx = "bad_format" THEN { [error |-> "IndexFormatError", result |-> <<>>] }
    ELSE IF d.idx = "bad_dim" THEN { [error |-> "SearchError", result |-> <<>>] }
    ELSE IF d.meta = "bad_token" THEN { [error |-> "InvalidToken", result |-> <<>>] }
    ELSE IF d.meta = "bad_format" THEN { [error |-> "MetadataFormatError", result |-> <<>>] }
    ELSE { FilterLoop(I, 1, <<>>, d.table, case_id, question_id, n) :
             I \in SearchResults(d.ntotal, SearchK(n)) }

\* util_functions.build_prompt: the prompt has a "Historical Examples:"
\* section exactly when examples is not empty
BuildPrompt(examples) == IF examples # <<>> THEN "with_examples" ELSE "plain"


\* what the run records of its retrieval call (lines 208-216)
RunOf(key, retr) ==
    [NoRun EXCEPT !.question = key,
                  !.retrieval = IF retr.error # "none" THEN "raised"
                                ELSE IF retr.result = <<>> THEN "empty" ELSE "found",
                  !.good_work = (retr.error = "none" /\ retr.result = <<>>)]

\* lines 249-250: except Exception: st.error("Submission failed: ...")
SubmissionFailed(s, sh, run, at) ==
    [session |-> s, sheet |-> sh,
     lastrun |-> [run EXCEPT !.msg = "Submission failed", !.failed_at = at]]

\* lines 230-241: the row appended to the sheet
Row(s, cid, qid, user_input, prompt, method) ==
    [user_name |-> s.user_name, user_email |-> s.user_email, case_id |-> cid,
     question_id |-> qid, user_input |-> user_input, prompt |-> prompt,
     input_method |-> method]

\* lines 243-245: the answer is stored and the session moves on
Stored(s, cid, qid, user_input) ==
    [s EXCEPT !.answers = (<<cid, qid>> :> user_input) @@ @,
              !.submitted_questions = Append(@, qid),
              !.current_question = @ + 1]

\* mutant of TrySubmit: an empty retrieval is treated as a failure
TrySubmitFailsOnEmpty(s, sh, cid, qid, user_input, method, retr, prompt_ok, fb, append_ok) ==
    LET run == RunOf(<<cid, qid>>, retr)
        run1 == [run EXCEPT !.prompt = BuildPrompt(retr.result), !.feedback = fb]
    IN  IF retr.error # "none" \/ retr.result = <<>> THEN SubmissionFailed(s, sh, run, "retrieval")
        ELSE IF ~prompt_ok THEN SubmissionFailed(s, sh, run, "prompt")
        ELSE IF fb # "text" THEN SubmissionFailed(s, sh, run1, "feedback")
        ELSE IF ~append_ok THEN SubmissionFailed(s, sh, run1, "append")
        ELSE [session |-> Stored(s, cid, qid, user_input),
              sheet |-> Append(sh, Row(s, cid, qid, user_input, run1.prompt, method)),
              lastrun |-> [run1 EXCEPT !.appended = TRUE, !.msg = "Submitted!"]]

\* mutant of TrySubmit: the submitted answer is not stored under its key
TrySubmitNoStore(s, sh, cid, qid, user_input, method, retr, prompt_ok, fb, append_ok) ==
    LET run == RunOf(<<cid, qid>>, retr)
        run1 == [run EXCEPT !.prompt = BuildPrompt(retr.result), !.feedback = fb]
    IN  IF retr.error # "none" THEN SubmissionFailed(s, sh, run, "retrieval")
        ELSE IF ~prompt_ok THEN SubmissionFailed(s, sh, run, "prompt")
        ELSE IF fb # "text" THEN SubmissionFailed(s, sh, run1, "feedback")
        ELSE IF ~append_ok THEN SubmissionFailed(s, sh, run1, "append")
        ELSE [session |-> [s EXCEPT !.submitted_questions = Append(@, qid)],
              sheet |-> Append(sh, Row(s, cid, qid, user_input, run1.prompt, method)),
              lastrun |-> [run1 EXCEPT !.appended = TRUE, !.msg = "Submitted!"]]

\* mutant of TrySubmit: the session moves on before the row is appended
TrySubmitAdvancesFirst(s, sh, cid, qid, user_input, method, retr, prompt_ok, fb, append_ok) ==
    LET run == RunOf(<<cid, qid>>, retr)
        run1 == [run EXCEPT !.prompt = BuildPrompt(retr.result), !.feedback = fb]
    IN  IF retr.error # "none" THEN SubmissionFailed(s, sh, run, "retrieval")
        ELSE IF ~prompt_ok THEN SubmissionFailed(s, sh, run, "prompt")
        ELSE IF fb # "text" THEN SubmissionFailed(s, sh, run1, "feedback")
        ELSE IF ~append_ok
        THEN SubmissionFailed(Stored(s, cid, qid, user_input), sh, run1, "append")
        ELSE [session |-> Stored(s, cid, qid, user_input),
              sheet |-> Append(sh, Row(s, cid, qid, user_input, run1.prompt, method)),
              lastrun |-> [run1 EXCEPT !.appended = TRUE, !.msg = "Submitted!"]]

\* lines 205-250: the try block of a submission with non-empty user_input.
\*   retr       outcome of retriever.get_nearest_neighbors (lines 208-213)
\*   prompt_ok  build_prompt returned (it raises KeyError on an example
\*              without an 'answer' or 'feedback' key)
\*   fb         generate_feedback: "text", "None" (its except branch; the
\*              row's feedback.strip() then raises) or "raised"
\*   append_ok  sheet.append_row returned
TrySubmit(s, sh, cid, qid, user_input, method, retr, prompt_ok, fb, append_ok) ==
    LET run == RunOf(<<cid, qid>>, retr)
        run1 == [run EXCEPT !.prompt = BuildPrompt(retr.result), !.feedback = fb]
    IN  IF retr.error # "none" THEN SubmissionFailed(s, sh, run, "retrieval")
        ELSE IF ~prompt_ok THEN SubmissionFailed(s, sh, run, "prompt")
        ELSE IF fb # "text" THEN SubmissionFailed(s, sh, run1, "feedback")
        ELSE IF ~append_ok THEN SubmissionFailed(s, sh, run1, "append")
        ELSE [session |-> Stored(s, cid, qid, user_input),
              sheet |-> Append(sh, Row(s, cid, qid, user_input, run1.prompt, method)),
              lastrun |-> [run1 EXCEPT !.appended = TRUE, !.msg = "Submitted!"]]

retrieverVars == <<disk, _index, _metadata, _embedder, work, pc, frame, calls, threads>>

\* a run that changes nothing but what it shows
Shows(msg) ==
    /\ lastrun' = [NoRun EXCEPT !.msg = msg]
    /\ UNCHANGED <<session, sheet>>

\* lines 82-100: the "Continue" button of the details form
Continue(name, email) ==
    /\ Stage(session) = "details"
    /\ IF name = <<>> \/ email = <<>> THEN Shows("Please enter your name and email.")
       ELSE IF ~EmailMatches(email) THEN Shows("Please enter a valid email address.")
       ELSE /\ session' = [session EXCEPT !.user_name = name, !.user_email = email,
                                          !.details_submitted = TRUE]
            /\ lastrun' = [NoRun EXCEPT !.msg = "rerun"]
            /\ UNCHANGED sheet
    /\ UNCHANGED retrieverVars

\* lines 103-116: a case button
SelectCase(cid) ==
    /\ Stage(session) = "case"
    /\ session' = [session EXCEPT !.selected_case_id = cid, !.input_method_chosen = FALSE,
                                  !.current_question = 0]
    /\ lastrun' = [NoRun EXCEPT !.msg = "rerun"]
    /\ UNCHANGED sheet
    /\ UNCHANGED retrieverVars

\* mutant of PasswordOk: a case without a password opens with the empty one
PasswordOkDefault(cid, password) ==
    (IF cid \in DOMAIN CasePasswords THEN PyStr(CasePasswords[cid]) ELSE PyStr("")) = PyStr(password)

\* line 124: CASE_PASSWORDS.get(case_id) == case_password
PasswordOk(cid, password) == DictGet(CasePasswords, cid) = PyStr(password)

\* lines 119-130: the "Unlock Case" button
UnlockCase(password) ==
    /\ Stage(session) = "password"
    /\ IF PasswordOk(session.selected_case_id, password)
       THEN /\ session' = [session EXCEPT !.authenticated = @ \cup {session.selected_case_id}]
            /\ lastrun' = [NoRun EXCEPT !.msg = "rerun"]
            /\ UNCHANGED sheet
       ELSE Shows("Incorrect password for this case.")
    /\ UNCHANGED retrieverVars

\* lines 133-140: a run of the input-method block; line 136 stores the
\* radio's value in every such run, the "Start Case" button confirms it
ChooseMethod(method, start) ==
    /\ Stage(session) = "method"
    /\ session' = [session EXCEPT !.selected_input_method = method,
                                  !.input_method_chosen = start]
    /\ lastrun' = [NoRun EXCEPT !.msg = IF start THEN "rerun" ELSE "none"]
    /\ UNCHANGED sheet
    /\ UNCHANGED retrieverVars

\* lines 205-250 for question position q of the selected case
Submit(q, user_input) ==
    LET cid == session.selected_case_id
        qid == Questions(cid)[q + 1]
    IN  \E retr \in GetNearestNeighbors(disk, "text", StrId(cid), StrId(qid), AppN),
           fb \in {"text", "None", "raised"}, append_ok \in BOOLEAN :
          \E prompt_ok \in (IF retr.result # <<>> THEN BOOLEAN ELSE {TRUE}) :
             LET out == TrySubmit(session, sheet, cid, qid, user_input,
                                  session.selected_input_method, retr, prompt_ok, fb, append_ok)
             IN  /\ session' = out.session
                 /\ sheet' = out.sheet
                 /\ lastrun' = out.lastrun

\* lines 172-178 and 205: a run with the text area holding raw; clicked is
\* the "Submit Answer" button.  user_input is the text area's value, stripped
\* only when the button was clicked
TextRun(q, raw, clicked) ==
    /\ q \in OfferedPositions(session)
    /\ session.selected_input_method = "Text"
    /\ Len(sheet) < MaxRows
    /\ LET user_input == IF clicked THEN Strip(raw) ELSE raw
       IN  IF clicked /\ user_input = <<>>
           THEN Shows("Please enter a response before submitting.")
           ELSE IF user_input = <<>> THEN Shows("none")
           ELSE Submit(q, user_input)
    /\ UNCHANGED retrieverVars

\* lines 180-203 and 205: a run with a recording; clicked is the "Submit
\* Recording" button, upload_ok the Drive upload (it raises outside any try),
\* transcribe_ok whether transcribe_audio returned, transcript what it returned
VoiceRun(q, clicked, upload_ok, transcribe_ok, transcript) ==
    /\ q \in OfferedPositions(session)
    /\ session.selected_input_method = "Voice"
    /\ Len(sheet) < MaxRows
    /\ IF ~clicked THEN Shows("none")
       ELSE IF ~upload_ok THEN Shows("exception")
       ELSE IF ~transcribe_ok THEN Shows("Transcription failed")
       ELSE IF Strip(transcript) = <<>> THEN Shows("none")
       ELSE Submit(q, Strip(transcript))
    /\ UNCHANGED retrieverVars

NextApp ==
    \/ \E name \in Names, email \in Emails : Continue(name, email)
    \/ \E cid \in CaseIds : SelectCase(cid)
    \/ \E password \in Passwords : UnlockCase(password)
    \/ \E method \in Methods, start \in BOOLEAN : ChooseMethod(method, start)
    \/ \E q \in 0..1, raw \in RawAnswers, clicked \in BOOLEAN : TextRun(q, raw, clicked)
    \/ \E q \in 0..1, clicked \in BOOLEAN, upload_ok \in BOOLEAN, transcribe_ok \in BOOLEAN,
          transcript \in RawAnswers : VoiceRun(q, clicked, upload_ok, transcribe_ok, transcript)

\* the disks the app runs on: every pair that loads of up to MaxRecs records
\* and the disks with one failing load
AppDisks == { d \in Disks : SingleFault(d) /\ Len(d.table) <= MaxRecs }

InitApp ==
    /\ disk \in AppDisks
    /\ threads = {}
    /\ RetrieverInit
    /\ AppIdle

SpecApp == InitApp /\ [][NextApp]_vars


(***************************************************************************)
(* Properties of the submission app.                                       *)
(***************************************************************************)
RowKey(row) == <<row.case_id, row.question_id>>

\* C12: a submission whose retrieval returned the empty list is not failed
\* by it: "Good work!" is shown, the prompt is built without a historical
\* examples section, feedback is requested, and when feedback and the sheet
\* append succeed the row is logged, the answer stored and the session moved
\* on to the next question.
C12_ProceedsOnEmpty ==
    lastrun.retrieval = "empty" =>
        /\ lastrun.good_work
        /\ lastrun.prompt = "plain"
        /\ lastrun.feedback # "none"
        /\ lastrun.failed_at \in {"none", "feedback", "append"}
        /\ lastrun.failed_at = "none" =>
              /\ lastrun.msg = "Submitted!" /\ lastrun.appended
              /\ sheet # <<>>
              /\ RowKey(sheet[Len(sheet)]) = lastrun.question
              /\ sheet[Len(sheet)].prompt = "plain"
              /\ lastrun.question \in DOMAIN session.answers
              /\ session.current_question = Len(sheet)

\* C12 witness: a submission with an empty retrieval was logged and the
\* session moved on
C12_Witness ==
    /\ lastrun.retrieval = "empty" /\ lastrun.appended
    /\ session.current_question = 1 /\ Len(sheet) = 1

\* C14: the sheet holds at most one row per question, every row's question
\* has its answer stored, there are as many stored answers as rows, and the
\* only question a run offers an input for is the current one, which has no
\* row yet.
C14_OneChancePerQuestion ==
    /\ \A i, j \in 1..Len(sheet) : RowKey(sheet[i]) = RowKey(sheet[j]) => i = j
    /\ \A i \in 1..Len(sheet) : RowKey(sheet[i]) \in DOMAIN session.answers
    /\ Cardinality(DOMAIN session.answers) = Len(sheet)
    /\ Len(session.submitted_questions) = Len(sheet)
    /\ \A q \in OfferedPositions(session) :
          /\ q = session.current_question
          /\ \A i \in 1..Len(sheet) :
                RowKey(sheet[i]) # <<session.selected_case_id,
                                     Questions(session.selected_case_id)[q + 1]>>

\* C14 witness: both questions of the case were answered, one row each, and
\* no input is offered any more
C14_Witness ==
    /\ Len(sheet) = 2 /\ Stage(session) = "completed"
    /\ OfferedPositions(session) = {}

\* C16: a run that ends in "Submission failed" (or in a failed transcription
\* or upload) leaves the session state and the sheet as they were, and
\* current_question changes only by one, in a run that appended a row.
C16_FailedSubmissionKeepsSession ==
    [][ /\ lastrun'.msg \in {"Submission failed", "Transcription failed", "exception"} =>
              /\ session' = session /\ sheet' = sheet
              /\ OfferedPositions(session') = OfferedPositions(session)
        /\ session'.current_question # session.current_question =>
              /\ session'.current_question = session.current_question + 1
              /\ Len(sheet') = Len(sheet) + 1
              /\ lastrun'.appended ]_vars

\* C16 witness: after the first question was accepted, the submission of the
\* second failed because generate_feedback returned None
C16_Witness ==
    /\ lastrun.msg = "Submission failed" /\ lastrun.failed_at = "feedback"
    /\ lastrun.feedback = "None"
    /\ session.current_question = 1 /\ Len(sheet) = 1
    /\ OfferedPositions(session) = {1}

\* the e-mails of Emails the pattern accepts
AcceptedEmails == { <<"w", "@", "w", ".", "w">>,
                    <<"w", "-", ".", "@", "w", ".", "w", ".", "w", "w">> }

====
